---- MODULE Spec2Model ----
(***************************************************************************)
(* A model of the qrcode-generator crate (src/src/lib.rs): the mode        *)
(* classifier, the capacity tables, the segment optimizer                  *)
(* (compute_character_modes, split_into_segments, make_segments_optimally) *)
(* the URL pre-pass (optimize_url_segments) and the matrix builder         *)
(* (to_matrix_inner).                                                      *)
(*                                                                         *)
(* Characters are Unicode scalar values (natural numbers).  A slice or a   *)
(* Vec is a sequence; Rust's 0-based index i is position i + 1.            *)
(***************************************************************************)
EXTENDS Integers, Sequences, FiniteSets, TLC

VARIABLES
    stdlib,     \* which slice::binary_search the build links (see binary_search)
    pc,         \* "idle", or the position inside make_segments_optimally
    call,       \* the last call: its name and its arguments
    ret,        \* what that call returned (or that it panicked)
    version,    \* make_segments_optimally: the loop variable
    segs,       \* make_segments_optimally: the local `segs`
    locals,     \* the locals of the function make_segments_optimally is inside
    files       \* the file system: for each path, whether a file is there and what it holds

vars == <<stdlib, pc, call, ret, version, segs, locals, files>>

(***************************************************************************)
(* Bounds of the model.                                                    *)
(***************************************************************************)
\* longest text handed to compute_character_modes / make_segments_optimally_version
MaxLen == 4
\* longest text handed to split_into_segments together with every mode array
MaxSplitLen == 3
\* the length of the text that fits no version
LongLen == 320

\* the largest requested image size
MaxImageSize == 47

(***************************************************************************)
(* Sequence helpers.                                                       *)
(***************************************************************************)
\* Rust's s[a..b] for 0 <= a <= b <= len (the callers decide the panic cases)
Slice(s, a, b) == SubSeq(s, a + 1, b)

\* s[lo] \o ... \o s[hi] for a sequence s of sequences, by halves
RECURSIVE ConcatRange(_, _, _)
ConcatRange(s, lo, hi) ==
    IF lo > hi THEN <<>>
    ELSE IF lo = hi THEN s[lo]
    ELSE LET mid == (lo + hi) \div 2
         IN ConcatRange(s, lo, mid) \o ConcatRange(s, mid + 1, hi)

Concat(s) == ConcatRange(s, 1, Len(s))

\* s[lo] + ... + s[hi] for a sequence s of numbers, by halves
RECURSIVE SumRange(_, _, _)
SumRange(s, lo, hi) ==
    IF lo > hi THEN 0
    ELSE IF lo = hi THEN s[lo]
    ELSE LET mid == (lo + hi) \div 2
         IN SumRange(s, lo, mid) + SumRange(s, mid + 1, hi)

SumSeq(s) == SumRange(s, 1, Len(s))


\* every sequence over S of length lo..hi
SeqsOf(S, lo, hi) == UNION {[1..n -> S] : n \in lo..hi}

(***************************************************************************)
(* Static tables (lib.rs 177-195).                                         *)
(***************************************************************************)
\* ' ', '.', '$', '%', '*', '+', '-', '/', '0'..'9', ':', 'A'..'Z', in the
\* order the source lists them
SORTED_ALPHANUMERIC_CHARSET ==
    <<32, 46, 36, 37, 42, 43, 45, 47,
      48, 49, 50, 51, 52, 53, 54, 55, 56, 57,
      58,
      65, 66, 67, 68, 69, 70, 71, 72, 73, 74, 75, 76, 77, 78, 79, 80, 81, 82,
      83, 84, 85, 86, 87, 88, 89, 90>>

\* rows Low, Medium, Quartile, High; column v (index 0 of the source, -1, is
\* left out: position v of a row is the source's [ordinal][v])
ECC_CODEWORDS_PER_BLOCK ==
    << <<7, 10, 15, 20, 26, 18, 20, 24, 30, 18, 20, 24, 26, 30, 22, 24, 28, 30, 28, 28, 28, 28, 30, 30, 26, 28, 30, 30, 30, 30, 30, 30, 30, 30, 30, 30, 30, 30, 30, 30>>,
       <<10, 16, 26, 18, 24, 16, 18, 22, 22, 26, 30, 22, 22, 24, 24, 28, 28, 26, 26, 26, 26, 28, 28, 28, 28, 28, 28, 28, 28, 28, 28, 28, 28, 28, 28, 28, 28, 28, 28, 28>>,
       <<13, 22, 18, 26, 18, 24, 18, 22, 20, 24, 28, 26, 24, 20, 30, 24, 28, 28, 26, 30, 28, 30, 30, 30, 30, 28, 30, 30, 30, 30, 30, 30, 30, 30, 30, 30, 30, 30, 30, 30>>,
       <<17, 28, 22, 16, 22, 28, 26, 26, 24, 28, 24, 28, 22, 24, 24, 30, 28, 28, 26, 28, 30, 24, 30, 30, 30, 30, 30, 30, 30, 30, 30, 30, 30, 30, 30, 30, 30, 30, 30, 30>> >>

NUM_ERROR_CORRECTION_BLOCKS ==
    << <<1, 1, 1, 1, 1, 2, 2, 2, 2, 4, 4, 4, 4, 4, 6, 6, 6, 6, 7, 8, 8, 9, 9, 10, 12, 12, 12, 13, 14, 15, 16, 17, 18, 19, 19, 20, 21, 22, 24, 25>>,
       <<1, 1, 1, 2, 2, 4, 4, 4, 5, 5, 5, 8, 9, 9, 10, 10, 11, 13, 14, 16, 17, 17, 18, 20, 21, 23, 25, 26, 28, 29, 31, 33, 35, 37, 38, 40, 43, 45, 47, 49>>,
       <<1, 1, 2, 2, 4, 4, 6, 6, 8, 8, 8, 10, 12, 16, 12, 17, 16, 18, 21, 20, 23, 23, 25, 27, 29, 34, 34, 35, 38, 40, 43, 45, 48, 51, 53, 56, 59, 62, 65, 68>>,
       <<1, 1, 2, 4, 4, 4, 5, 6, 8, 8, 11, 11, 16, 16, 18, 16, 19, 21, 25, 25, 25, 34, 30, 32, 35, 37, 40, 42, 45, 48, 51, 54, 57, 60, 63, 66, 70, 74, 77, 81>> >>

QrCodeEcc == {"Low", "Medium", "Quartile", "High"}

Versions == 1..40

(***************************************************************************)
(* Mode classifier (lib.rs 197-205).                                       *)
(***************************************************************************)
is_numeric(c) == 48 <= c /\ c <= 57

\* slice::binary_search(..).is_ok().  The table above is not in ascending
\* order, and on such a slice the result is whatever the linked
\* implementation's probes happen to find.  Two implementations have shipped
\* with the standard library:
\*   "halving"  : base/size halving, the element is compared at the end
\*   "threeway" : left/right with an early return on Equal
RECURSIVE HalvingSearch(_, _, _, _)
HalvingSearch(s, c, base, size) ==
    IF size > 1
    THEN LET half == size \div 2
             mid == base + half
         IN HalvingSearch(s, c, IF s[mid + 1] > c THEN base ELSE mid, size - half)
    ELSE s[base + 1] = c

RECURSIVE ThreeWaySearch(_, _, _, _)
ThreeWaySearch(s, c, left, right) ==
    IF left < right
    THEN LET mid == left + (right - left) \div 2
         IN IF s[mid + 1] < c THEN ThreeWaySearch(s, c, mid + 1, right)
            ELSE IF s[mid + 1] > c THEN ThreeWaySearch(s, c, left, mid)
            ELSE TRUE
    ELSE FALSE

StdLibs == {"halving", "threeway"}

binary_search(s, c) ==
    IF Len(s) = 0 THEN FALSE
    ELSE IF stdlib = "halving" THEN HalvingSearch(s, c, 0, Len(s))
    ELSE ThreeWaySearch(s, c, 0, Len(s))

is_alphanumeric(c) == binary_search(SORTED_ALPHANUMERIC_CHARSET, c)

(***************************************************************************)
(* Mode (lib.rs 207-249).                                                  *)
(***************************************************************************)
\* [mode indicator, count bits v1-9, v10-26, v27-40]
NUMERIC == <<1, 10, 12, 14>>
ALPHANUMERIC == <<2, 9, 11, 13>>
BYTE == <<4, 8, 16, 16>>

Mode == {"Numeric", "Alphanumeric", "Byte"}

NUM_MODES == 3

\* `match self { Numeric => .., Alphanumeric => .., Byte => .. }`: the arms
\* are written without the `Mode::` path and no variant is in scope, so the
\* first arm is an identifier pattern that binds any value; the other two
\* arms are unreachable.  NUMERIC[index] reads the source's array at 0, 1, 2:
\* the mode indicator for versions 1-9, then 10 and 12.
get_mode_bits(self) == NUMERIC[1]

get_num_char_count_bits(self, ver) ==
    LET index == (ver + 7) \div 17
    IN NUMERIC[index + 1]

(***************************************************************************)
(* Capacity (lib.rs 251-280).                                              *)
(***************************************************************************)
table_get(table, ver, ecc) ==
    LET ordinal == CASE ecc = "Low" -> 0
                     [] ecc = "Medium" -> 1
                     [] ecc = "Quartile" -> 2
                     [] ecc = "High" -> 3
    IN table[ordinal + 1][ver]

\* get_num_raw_data_modules with the number of alignment patterns per side
\* taken as ver / 6 + 2
get_num_raw_data_modules_by_six(ver) ==
    LET r0 == (16 * ver + 128) * ver + 64
        numalign == ver \div 6 + 2
        r1 == IF ver >= 2 THEN r0 - ((25 * numalign - 10) * numalign - 55) ELSE r0
    IN IF ver >= 2 /\ ver >= 7 THEN r1 - 36 ELSE r1

\* lib.rs 263-274
get_num_raw_data_modules(ver) ==
    LET r0 == (16 * ver + 128) * ver + 64
        numalign == ver \div 7 + 2
        r1 == IF ver >= 2 THEN r0 - ((25 * numalign - 10) * numalign - 55) ELSE r0
    IN IF ver >= 2 /\ ver >= 7 THEN r1 - 36 ELSE r1

get_num_data_codewords(ver, ecl) ==
    get_num_raw_data_modules(ver) \div 8
        - table_get(ECC_CODEWORDS_PER_BLOCK, ver, ecl) * table_get(NUM_ERROR_CORRECTION_BLOCKS, ver, ecl)

\* char::len_utf8
len_utf8(c) == IF c < 128 THEN 1 ELSE IF c < 2048 THEN 2 ELSE IF c < 65536 THEN 3 ELSE 4

(***************************************************************************)
(* compute_character_modes (lib.rs 283-359).                               *)
(***************************************************************************)
mode_types == <<"Byte", "Alphanumeric", "Numeric">>

None == "None"

\* lib.rs 286-290
head_costs(ver) ==
    [i \in 1..NUM_MODES |-> (4 + get_num_char_count_bits(mode_types[i], ver)) * 6]

\* lib.rs 306-318: the three "continue in the same mode" entries for character c
ContinueCosts(c, prev_costs) ==
    <<prev_costs[1] + len_utf8(c) * 8 * 6,
      IF is_alphanumeric(c) THEN prev_costs[2] + 33 ELSE 0,
      IF is_numeric(c) THEN prev_costs[3] + 20 ELSE 0>>

ContinueModes(c) ==
    <<mode_types[1],
      IF is_alphanumeric(c) THEN mode_types[2] ELSE None,
      IF is_numeric(c) THEN mode_types[3] ELSE None>>

\* the j/k double loop without the test that the entry switched from is set
RECURSIVE SwitchLoop_from_unset(_, _, _)
SwitchLoop_from_unset(jk, st, heads) ==
    IF jk >= NUM_MODES * NUM_MODES THEN st
    ELSE LET j == (jk \div NUM_MODES) + 1
             k == (jk % NUM_MODES) + 1
             new_cost == ((st.costs[k] + 5) \div 6) * 6 + heads[j]
         IN SwitchLoop_from_unset(jk + 1,
                IF st.modes[j] = None \/ new_cost < st.costs[j]
                THEN [costs |-> [st.costs EXCEPT ![j] = new_cost],
                      modes |-> [st.modes EXCEPT ![j] = mode_types[k]]]
                ELSE st,
                heads)

\* the j/k double loop with a candidate of equal cost replacing the entry
RECURSIVE SwitchLoop_or_equal(_, _, _)
SwitchLoop_or_equal(jk, st, heads) ==
    IF jk >= NUM_MODES * NUM_MODES THEN st
    ELSE LET j == (jk \div NUM_MODES) + 1
             k == (jk % NUM_MODES) + 1
             new_cost == ((st.costs[k] + 5) \div 6) * 6 + heads[j]
         IN SwitchLoop_or_equal(jk + 1,
                IF st.modes[k] # None /\ (st.modes[j] = None \/ new_cost <= st.costs[j])
                THEN [costs |-> [st.costs EXCEPT ![j] = new_cost],
                      modes |-> [st.modes EXCEPT ![j] = mode_types[k]]]
                ELSE st,
                heads)

\* lib.rs 320-328: the j/k double loop, from iteration number jk = 3 * j + k
\* on, run in source order on the pair st = [costs, modes] (cur_costs and
\* char_modes[i]) that it updates in place
RECURSIVE SwitchLoop(_, _, _)
SwitchLoop(jk, st, heads) ==
    IF jk >= NUM_MODES * NUM_MODES THEN st
    ELSE LET j == (jk \div NUM_MODES) + 1
             k == (jk % NUM_MODES) + 1
             new_cost == ((st.costs[k] + 5) \div 6) * 6 + heads[j]
         IN SwitchLoop(jk + 1,
                IF st.modes[k] # None /\ (st.modes[j] = None \/ new_cost < st.costs[j])
                THEN [costs |-> [st.costs EXCEPT ![j] = new_cost],
                      modes |-> [st.modes EXCEPT ![j] = mode_types[k]]]
                ELSE st,
                heads)

\* lib.rs 292-302: the locals before the loop over the characters
CharEnter(heads) == [i |-> 0, prev_costs |-> heads, char_modes |-> <<>>]

\* lib.rs 305-330: the iteration for character i of the loop over the
\* characters; l = [i, prev_costs, char_modes]
CharStep(code_points, l, heads) ==
    LET c == code_points[l.i + 1]
        st == SwitchLoop(0, [costs |-> ContinueCosts(c, l.prev_costs),
                             modes |-> ContinueModes(c)], heads)
    IN [i |-> l.i + 1, prev_costs |-> st.costs,
        char_modes |-> Append(l.char_modes, st.modes)]

RECURSIVE CharLoop(_, _, _)
CharLoop(code_points, l, heads) ==
    IF l.i >= Len(code_points) THEN l
    ELSE CharLoop(code_points, CharStep(code_points, l, heads), heads)

\* lib.rs 333-344: the ending mode; st = [cur_mode, min_cost]
RECURSIVE FinalModeLoop(_, _, _)
FinalModeLoop(i, st, prev_costs) ==
    IF i >= NUM_MODES THEN st.cur_mode
    ELSE FinalModeLoop(i + 1,
            IF st.cur_mode = None \/ prev_costs[i + 1] < st.min_cost
            THEN [cur_mode |-> mode_types[i + 1], min_cost |-> prev_costs[i + 1]]
            ELSE st,
            prev_costs)

ModeIndex(m) == CHOOSE j \in 1..NUM_MODES : mode_types[j] = m

\* lib.rs 333-346: the locals before the trace-back loop
TraceEnter(dp) ==
    [char_modes |-> dp.char_modes,
     i |-> Len(dp.char_modes) - 1,
     cur_mode |-> FinalModeLoop(0, [cur_mode |-> None, min_cost |-> 0], dp.prev_costs),
     result |-> <<>>, status |-> "loop"]

\* lib.rs 348-356: one iteration of the trace-back; i runs from the last
\* character down to the first and each mode is pushed onto result as it is
\* found; unwrap() of None panics.  l = [char_modes, i, cur_mode, result, status]
TraceStep(l) ==
    LET prev == l.char_modes[l.i + 1][ModeIndex(l.cur_mode)]
    IN IF prev = None THEN [l EXCEPT !.status = "panicked"]
       ELSE [l EXCEPT !.i = l.i - 1, !.cur_mode = prev, !.result = Append(l.result, prev)]

RECURSIVE TraceBack(_)
TraceBack(l) ==
    IF l.status # "loop" \/ l.i < 0 THEN l ELSE TraceBack(TraceStep(l))

\* the DP tables as they stand when the character loop ends
DpTables(code_points, ver) ==
    CharLoop(code_points, CharEnter(head_costs(ver)), head_costs(ver))

\* [panicked, modes]
compute_character_modes(code_points, ver) ==
    LET dp == DpTables(code_points, ver)
        l == TraceBack(TraceEnter(dp))
    IN [panicked |-> l.status = "panicked", modes |-> l.result]

\* the locals of compute_character_modes when it returns (or panics), for
\* inspection: [char_modes, prev_costs, cur_mode], cur_mode being the ending
\* mode chosen at lib.rs 333-344
compute_character_modes_locals(code_points, ver) ==
    LET dp == DpTables(code_points, ver)
    IN [char_modes |-> dp.char_modes, prev_costs |-> dp.prev_costs,
        cur_mode |-> TraceEnter(dp).cur_mode]

(***************************************************************************)
(* The external encoder's segment constructors (crate qrcodegen), as far   *)
(* as this crate relies on them.  A segment is [mode, data]: the           *)
(* characters for Numeric and Alphanumeric, the bytes for Byte.            *)
(***************************************************************************)
\* the 45 symbols of the QR alphanumeric mode
ALPHANUMERIC_CHARSET == {32, 36, 37, 42, 43, 45, 46, 47, 58} \cup (48..57) \cup (65..90)

\* String::into_bytes of one character: its UTF-8 encoding
utf8_char(c) ==
    IF c < 128 THEN <<c>>
    ELSE IF c < 2048 THEN <<192 + (c \div 64), 128 + (c % 64)>>
    ELSE IF c < 65536
    THEN <<224 + (c \div 4096), 128 + ((c \div 64) % 64), 128 + (c % 64)>>
    ELSE <<240 + (c \div 262144), 128 + ((c \div 4096) % 64),
           128 + ((c \div 64) % 64), 128 + (c % 64)>>

into_bytes(chars) == Concat([i \in 1..Len(chars) |-> utf8_char(chars[i])])

\* the characters a well-formed UTF-8 byte sequence stands for
RECURSIVE utf8_decode(_)
utf8_decode(bytes) ==
    IF bytes = <<>> THEN <<>>
    ELSE LET b == bytes[1]
             n == IF b < 128 THEN 1 ELSE IF b < 224 THEN 2 ELSE IF b < 240 THEN 3 ELSE 4
             lead == IF b < 128 THEN b ELSE IF b < 224 THEN b - 192
                     ELSE IF b < 240 THEN b - 224 ELSE b - 240
             c == IF n = 1 THEN lead
                  ELSE IF n = 2 THEN lead * 64 + (bytes[2] - 128)
                  ELSE IF n = 3 THEN lead * 4096 + (bytes[2] - 128) * 64 + (bytes[3] - 128)
                  ELSE lead * 262144 + (bytes[2] - 128) * 4096 + (bytes[3] - 128) * 64
                       + (bytes[4] - 128)
         IN <<c>> \o utf8_decode(SubSeq(bytes, n + 1, Len(bytes)))

\* QrSegment::make_numeric / make_alphanumeric / make_bytes: [ok, seg]; the
\* first two reject (panic on) a character outside their mode's alphabet
make_numeric(chars) ==
    [ok |-> \A i \in 1..Len(chars) : 48 <= chars[i] /\ chars[i] <= 57,
     seg |-> [mode |-> "Numeric", data |-> chars]]

make_alphanumeric(chars) ==
    [ok |-> \A i \in 1..Len(chars) : chars[i] \in ALPHANUMERIC_CHARSET,
     seg |-> [mode |-> "Alphanumeric", data |-> chars]]

make_bytes(bytes) == [ok |-> TRUE, seg |-> [mode |-> "Byte", data |-> bytes]]

\* the text a segment carries
SegmentText(seg) == IF seg.mode = "Byte" THEN utf8_decode(seg.data) ELSE seg.data

SegmentsText(ss) == Concat([i \in 1..Len(ss) |-> SegmentText(ss[i])])

(***************************************************************************)
(* split_into_segments (lib.rs 361-400).                                   *)
(***************************************************************************)
\* lib.rs 375-389: the slice and the segment made of it: [ok, made, seg].
\* A range whose start exceeds its end, or whose end exceeds the length,
\* panics before any segment is made.
SplitSegment(code_points, cur_mode, start, i) ==
    IF start > i - start \/ i - start > Len(code_points)
    THEN [ok |-> FALSE, made |-> FALSE, seg |-> [mode |-> cur_mode, data |-> <<>>]]
    ELSE LET s == Slice(code_points, start, i - start)
             m == IF cur_mode = "Byte" THEN make_bytes(into_bytes(s))
                  ELSE IF cur_mode = "Numeric" THEN make_numeric(s)
                  ELSE make_alphanumeric(s)
         IN [ok |-> m.ok, made |-> TRUE, seg |-> m.seg]

\* lib.rs 369-397: one iteration of `loop`; l = [char_modes, cur_mode, start,
\* i, result, status], status "loop" while the loop runs.  result lists the
\* segments handed to the constructors, the one a constructor rejected
\* included.
SplitIter(code_points, l) ==
    LET i == l.i + 1
    IN IF i < Len(code_points) /\ l.char_modes[i + 1] = l.cur_mode
       THEN [l EXCEPT !.i = i]
       ELSE LET m == SplitSegment(code_points, l.cur_mode, l.start, i)
                result == IF m.made THEN Append(l.result, m.seg) ELSE l.result
            IN IF ~m.ok
               THEN [l EXCEPT !.i = i, !.result = result, !.status = "panicked"]
               ELSE IF i >= Len(code_points)
               THEN [l EXCEPT !.i = i, !.result = result, !.status = "returned"]
               ELSE [l EXCEPT !.cur_mode = l.char_modes[i + 1], !.start = i, !.i = i,
                              !.result = result]

\* lib.rs 362-368: the locals before the loop; char_modes[0] panics on an
\* empty array
SplitEnter(char_modes) ==
    [char_modes |-> char_modes,
     cur_mode |-> IF Len(char_modes) = 0 THEN None ELSE char_modes[1],
     start |-> 0, i |-> 0, result |-> <<>>,
     status |-> IF Len(char_modes) = 0 THEN "panicked" ELSE "loop"]

RECURSIVE SplitLoop(_, _)
SplitLoop(code_points, l) ==
    IF l.status # "loop" THEN l ELSE SplitLoop(code_points, SplitIter(code_points, l))

\* [panicked, segs]: segs are the segments handed to the constructors, in
\* order
split_into_segments(code_points, char_modes) ==
    LET l == SplitLoop(code_points, SplitEnter(char_modes))
    IN [panicked |-> l.status = "panicked", segs |-> l.result]

\* lib.rs 402-406
make_segments_optimally_version(code_points, ver) ==
    LET char_modes == compute_character_modes(code_points, ver)
    IN IF char_modes.panicked THEN [panicked |-> TRUE, segs |-> <<>>]
       ELSE split_into_segments(code_points, char_modes.modes)

(***************************************************************************)
(* The external encoder (crate qrcodegen): how it picks the version of a   *)
(* symbol.  It has its own, complete, copies of the mode and capacity      *)
(* tables.                                                                 *)
(***************************************************************************)
\* QrSegment::make_segments: no segment for an empty text, else one segment
\* in the narrowest mode that holds the whole text
QrSegment_make_segments(text) ==
    IF Len(text) = 0 THEN <<>>
    ELSE IF make_numeric(text).ok THEN <<make_numeric(text).seg>>
    ELSE IF make_alphanumeric(text).ok THEN <<make_alphanumeric(text).seg>>
    ELSE <<make_bytes(into_bytes(text)).seg>>

\* the width of a segment's character-count field: the mode's own table, by
\* version class
SegmentCountBits(mode, ver) ==
    LET t == IF mode = "Numeric" THEN NUMERIC
             ELSE IF mode = "Alphanumeric" THEN ALPHANUMERIC ELSE BYTE
    IN t[(ver + 7) \div 17 + 2]

\* the length of a segment's data in bits: 10/7/4 bits per 3/2/1 digits,
\* 11/6 bits per 2/1 alphanumeric characters, 8 bits per byte
SegmentDataBits(seg) ==
    LET n == Len(seg.data)
    IN IF seg.mode = "Numeric"
       THEN 10 * (n \div 3) + (IF n % 3 = 1 THEN 4 ELSE IF n % 3 = 2 THEN 7 ELSE 0)
       ELSE IF seg.mode = "Alphanumeric" THEN 11 * (n \div 2) + 6 * (n % 2)
       ELSE 8 * n

\* QrSegment::get_total_bits: [ok, bits]; not ok when a segment's length does
\* not fit its count field
get_total_bits(ss, ver) ==
    [ok |-> \A i \in 1..Len(ss) : Len(ss[i].data) < 2 ^ SegmentCountBits(ss[i].mode, ver),
     bits |-> SumSeq([i \in 1..Len(ss) |->
                        4 + SegmentCountBits(ss[i].mode, ver) + SegmentDataBits(ss[i])])]

SegmentsFit(ss, ver, ecl) ==
    /\ get_total_bits(ss, ver).ok
    /\ get_total_bits(ss, ver).bits <= get_num_data_codewords(ver, ecl) * 8

\* QrCode::encode_segments: the smallest version that holds the segments,
\* None ([ok |-> FALSE]) when none does; a symbol of version v has
\* 4 v + 17 modules per side
encode_segments(ss, ecl) ==
    IF \E v \in Versions : SegmentsFit(ss, v, ecl)
    THEN LET v == CHOOSE v \in Versions :
                    /\ SegmentsFit(ss, v, ecl)
                    /\ \A u \in 1..(v - 1) : ~SegmentsFit(ss, u, ecl)
         IN [ok |-> TRUE, version |-> v, size |-> 4 * v + 17]
    ELSE [ok |-> FALSE, version |-> 0, size |-> 0]

\* String::from_utf8(..).is_ok()
RECURSIVE valid_utf8(_)
valid_utf8(bytes) ==
    IF bytes = <<>> THEN TRUE
    ELSE LET b == bytes[1]
             n == IF b < 128 THEN 1 ELSE IF b < 192 THEN 0 ELSE IF b < 224 THEN 2
                  ELSE IF b < 240 THEN 3 ELSE IF b < 248 THEN 4 ELSE 0
         IN /\ n > 0
            /\ Len(bytes) >= n
            /\ \A i \in 2..n : 128 <= bytes[i] /\ bytes[i] < 192
            /\ valid_utf8(SubSeq(bytes, n + 1, Len(bytes)))

\* QrCode::get_module: the module contents are the encoder's (error
\* correction, placement, masking); a symbol carries one of a few patterns
\* in their place.  qr = [size, pattern], pattern = <<a, b, m>>.
Patterns == {<<1, 0, 2>>, <<1, 1, 3>>, <<2, 1, 5>>, <<0, 1, 2>>}

get_module(qr, x, y) == (qr.pattern[1] * x + qr.pattern[2] * y) % qr.pattern[3] = 0

(***************************************************************************)
(* optimize_url_segments (lib.rs 458-499).                                 *)
(***************************************************************************)
\* str::find: the index of the first occurrence of pat in s, -1 for None
find(s, pat) ==
    LET hits == {i \in 0..(Len(s) - Len(pat)) : SubSeq(s, i + 1, i + Len(pat)) = pat}
    IN IF hits = {} THEN -1 ELSE CHOOSE i \in hits : \A k \in hits : i <= k

\* char::to_uppercase, for the characters of the model: an ASCII lower-case
\* letter gives its upper-case letter and U+00DF (sharp s) gives "SS"; the
\* other characters used here have no upper-case mapping
to_uppercase_char(c) ==
    IF 97 <= c /\ c <= 122 THEN <<c - 32>>
    ELSE IF c = 223 THEN <<83, 83>>
    ELSE <<c>>

to_uppercase(s) == Concat([i \in 1..Len(s) |-> to_uppercase_char(s[i])])

\* "://" and "/"
ProtocolSep == <<58, 47, 47>>
Slash == <<47>>

\* lib.rs 426-429
make_segments(text) == QrSegment_make_segments(text)

\* optimize_url_segments without the conversion to upper case
optimize_url_segments_lowercase(url) ==
    LET protocol_sep_index == find(url, ProtocolSep)
    IN IF protocol_sep_index >= 0
       THEN LET next_slash == find(Slice(url, protocol_sep_index + 3, Len(url)), Slash)
            IN IF next_slash >= 0
               THEN LET next_slash_index == next_slash + protocol_sep_index + 4
                        first == Slice(url, 0, next_slash_index)
                        second == Slice(url, next_slash_index, Len(url))
                    IN make_segments(first) \o make_segments(second)
               ELSE make_segments(url)
       ELSE make_segments(url)

\* lib.rs 458-499
optimize_url_segments(url) ==
    LET protocol_sep_index == find(url, ProtocolSep)
    IN IF protocol_sep_index >= 0
       THEN LET next_slash == find(Slice(url, protocol_sep_index + 3, Len(url)), Slash)
            IN IF next_slash >= 0
               THEN LET next_slash_index == next_slash + protocol_sep_index + 4
                        first == to_uppercase(Slice(url, 0, next_slash_index))
                        second == Slice(url, next_slash_index, Len(url))
                    IN make_segments(first) \o make_segments(second)
               ELSE make_segments(to_uppercase(url))
       ELSE make_segments(url)

(***************************************************************************)
(* generate_qrcode, to_matrix (lib.rs 501-564).                            *)
(***************************************************************************)
\* Result<QrCode, io::Error> is [ok, qr]; pattern is the symbol's contents
generate_qrcode(data, ecc, pattern) ==
    LET e == IF valid_utf8(data)
             THEN encode_segments(QrSegment_make_segments(utf8_decode(data)), ecc)
             ELSE encode_segments(<<make_bytes(data).seg>>, ecc)
    IN [ok |-> e.ok, qr |-> [size |-> e.size, pattern |-> pattern]]

generate_qrcode_by_segments(segments, ecc, pattern) ==
    LET e == encode_segments(segments, ecc)
    IN [ok |-> e.ok, qr |-> [size |-> e.size, pattern |-> pattern]]

\* lib.rs 546-548: the loop over x, pushing onto row
RECURSIVE RowLoop(_, _, _)
RowLoop(qr, y, l) ==
    IF l.x >= qr.size THEN l.row
    ELSE RowLoop(qr, y, [x |-> l.x + 1, row |-> Append(l.row, get_module(qr, l.x, y))])

\* lib.rs 543-551: the loop over y, pushing each row onto rows
RECURSIVE RowsLoop(_, _)
RowsLoop(qr, l) ==
    IF l.y >= qr.size THEN l.rows
    ELSE RowsLoop(qr, [y |-> l.y + 1,
                       rows |-> Append(l.rows, RowLoop(qr, l.y, [x |-> 0, row |-> <<>>]))])

\* to_matrix_inner with the two loops exchanged: row y holds column y
to_matrix_inner_by_columns(qr) ==
    [y \in 1..qr.size |-> [x \in 1..qr.size |-> get_module(qr, y - 1, x - 1)]]

\* lib.rs 535-554
to_matrix_inner(qr) == RowsLoop(qr, [y |-> 0, rows |-> <<>>])

\* Result<Vec<Vec<bool>>, io::Error> is [ok, qr, matrix]; qr is kept beside
\* the matrix built from it
to_matrix(data, ecc, pattern) ==
    LET g == generate_qrcode(data, ecc, pattern)
    IN [ok |-> g.ok, qr |-> g.qr, matrix |-> IF g.ok THEN to_matrix_inner(g.qr) ELSE <<>>]

to_matrix_by_segments(segments, ecc, pattern) ==
    LET g == generate_qrcode_by_segments(segments, ecc, pattern)
    IN [ok |-> g.ok, qr |-> g.qr, matrix |-> IF g.ok THEN to_matrix_inner(g.qr) ELSE <<>>]

(***************************************************************************)
(* to_svg_inner (lib.rs 566-656).  The writer receives a sequence of       *)
(* chunks, one per call of write: a literal of the source, the bytes of a  *)
(* formatted number or of the description, or a value of the build         *)
(* environment.                                                            *)
(***************************************************************************)
Lit(s) == [kind |-> "lit", lit |-> s, bytes |-> <<>>]

Bytes(b) == [kind |-> "bytes", lit |-> "", bytes |-> b]

\* env!(..)
Env(name) == [kind |-> "env", lit |-> name, bytes |-> <<>>]

\* usize::to_string: the decimal digits, most significant first
RECURSIVE to_string(_)
to_string(n) ==
    IF n < 10 THEN <<48 + n>> ELSE Append(to_string(n \div 10), 48 + (n % 10))

\* htmlescape::encode_minimal: & < > " ' become entities
encode_minimal_char(c) ==
    CASE c = 38 -> <<38, 97, 109, 112, 59>>
      [] c = 60 -> <<38, 108, 116, 59>>
      [] c = 62 -> <<38, 103, 116, 59>>
      [] c = 34 -> <<38, 113, 117, 111, 116, 59>>
      [] c = 39 -> <<38, 35, 120, 50, 55, 59>>
      [] OTHER -> utf8_char(c)

encode_minimal(chars) ==
    Concat([i \in 1..Len(chars) |-> encode_minimal_char(chars[i])])

\* Option<&str>: [some, value]
NoDescription == [some |-> FALSE, value |-> <<>>]

SomeDescription(chars) == [some |-> TRUE, value |-> chars]

\* lib.rs 586-596: the document's head, size being the formatted size
SvgHead(size) ==
    <<Lit("<?xml version=\"1.0\" encoding=\"utf-8\"?>"),
      Lit("<svg xmlns=\"http://www.w3.org/2000/svg\" xmlns:xlink=\"http://www.w3.org/1999/xlink\" width=\""),
      Bytes(size), Lit("\" height=\""), Bytes(size), Lit("\">")>>

\* lib.rs 598-614
SvgDesc(description) ==
    IF description.some
    THEN IF description.value # <<>>
         THEN <<Lit("<desc>"), Bytes(encode_minimal(description.value)), Lit("</desc>")>>
         ELSE <<>>
    ELSE <<Lit("<desc>"), Env("CARGO_PKG_NAME"), Lit(" "), Env("CARGO_PKG_VERSION"),
           Lit(" by magiclen.org"), Lit("</desc>")>>

\* lib.rs 616-624: the white background
SvgBackground(size) ==
    <<Lit("<rect width=\""), Bytes(size), Lit("\" height=\""), Bytes(size),
      Lit("\" fill=\"#FFFFFF\" cx=\"0\" cy=\"0\" />")>>

\* lib.rs 631-646: the square of the dark module at column j, row i
SvgModule(i, j, point_size, margin) ==
    LET x == j * point_size + margin
        y == i * point_size + margin
    IN <<Lit("<rect x=\""), Bytes(to_string(x)), Lit("\" y=\""), Bytes(to_string(y)),
         Lit("\" width=\""), Bytes(to_string(point_size)),
         Lit("\" height=\""), Bytes(to_string(point_size)),
         Lit("\" fill=\"#000000\" shape-rendering=\"crispEdges\" />")>>

\* lib.rs 629-648: the loop over j; l = [j, out]
RECURSIVE SvgRowLoop(_, _, _, _, _)
SvgRowLoop(qr, i, point_size, margin, l) ==
    IF l.j >= qr.size THEN l.out
    ELSE SvgRowLoop(qr, i, point_size, margin,
            [j |-> l.j + 1,
             out |-> IF get_module(qr, l.j, i)
                     THEN l.out \o SvgModule(i, l.j, point_size, margin)
                     ELSE l.out])

\* lib.rs 628-649: the loop over i; l = [i, out]
RECURSIVE SvgRowsLoop(_, _, _, _)
SvgRowsLoop(qr, point_size, margin, l) ==
    IF l.i >= qr.size THEN l.out
    ELSE SvgRowsLoop(qr, point_size, margin,
            [i |-> l.i + 1,
             out |-> SvgRowLoop(qr, l.i, point_size, margin, [j |-> 0, out |-> l.out])])

\* lib.rs 586-651: every chunk the function hands to write when no write fails
SvgChunks(qr, size, description, point_size, margin) ==
    SvgRowsLoop(qr, point_size, margin,
                [i |-> 0,
                 out |-> SvgHead(to_string(size)) \o SvgDesc(description)
                            \o SvgBackground(to_string(size))])
        \o <<Lit("</svg>")>>

\* the error messages
SizeTooSmall == "the size is too small"

WriterError == "the writer's error"

\* lib.rs 566-656.  fail_at is the writer's behaviour: 0 when it accepts
\* everything, k > 0 when its k-th operation (the writes in order, then the
\* flush) fails; each `?` returns that error at once.  The result is
\* [ok, error, written], written being what the writer has received.
to_svg_inner(qr, size, description, fail_at) ==
    LET data_length == qr.size
        data_length_with_margin == data_length + 2 * 1
        point_size == size \div data_length_with_margin
    IN IF point_size = 0
       THEN [ok |-> FALSE, error |-> SizeTooSmall, written |-> <<>>]
       ELSE LET margin == (size - (point_size * data_length)) \div 2
                chunks == SvgChunks(qr, size, description, point_size, margin)
            IN IF fail_at > 0 /\ fail_at <= Len(chunks) + 1
               THEN [ok |-> FALSE, error |-> WriterError,
                     written |-> SubSeq(chunks, 1, fail_at - 1)]
               ELSE [ok |-> TRUE, error |-> "", written |-> chunks]

(***************************************************************************)
(* to_image_inner (lib.rs 713-752).                                        *)
(***************************************************************************)
\* lib.rs 738-746: the indices of img_raw set to 0 for the module i, j
ModuleWrites(i, j, size, point_size, margin) ==
    LET x == i * point_size + margin
        y == j * point_size + margin
    IN {jj * size + ii : jj \in y..(y + point_size - 1), ii \in x..(x + point_size - 1)}

\* the loops with the module looked up at (j, i): drawn mirrored in the diagonal
ImageWrites_transposed(qr, size, point_size, margin) ==
    UNION {ModuleWrites(i, j, size, point_size, margin) :
            <<i, j>> \in {m \in (0..(qr.size - 1)) \X (0..(qr.size - 1)) :
                            get_module(qr, m[2], m[1])}}

\* lib.rs 735-749: every index the two loops write
ImageWrites(qr, size, point_size, margin) ==
    UNION {ModuleWrites(i, j, size, point_size, margin) :
            <<i, j>> \in {m \in (0..(qr.size - 1)) \X (0..(qr.size - 1)) :
                            get_module(qr, m[1], m[2])}}

\* to_image_inner with the point size taken from the symbol without its margin
to_image_inner_without_margin(qr, size) ==
    LET data_length == qr.size
        point_size == size \div data_length
    IN IF point_size = 0
       THEN [ok |-> FALSE, panicked |-> FALSE, error |-> SizeTooSmall, img_raw |-> <<>>,
             writes |-> {}]
       ELSE LET margin == (size - (point_size * data_length)) \div 2
                length == size * size
                writes == ImageWrites(qr, size, point_size, margin)
            IN IF \E p \in writes : p >= length
               THEN [ok |-> FALSE, panicked |-> TRUE, error |-> "", img_raw |-> <<>>,
                     writes |-> writes]
               ELSE [ok |-> TRUE, panicked |-> FALSE, error |-> "",
                     img_raw |-> [p \in 1..length |-> IF (p - 1) \in writes THEN 0 ELSE 255],
                     writes |-> writes]

\* lib.rs 713-752.  The result is [ok, panicked, error, img_raw, writes]:
\* img_raw[p + 1] is the byte at index p, writes the indices the loops
\* assigned to; an index outside the vector panics.
to_image_inner(qr, size) ==
    LET data_length == qr.size
        data_length_with_margin == data_length + 2 * 1
        point_size == size \div data_length_with_margin
    IN IF point_size = 0
       THEN [ok |-> FALSE, panicked |-> FALSE, error |-> SizeTooSmall, img_raw |-> <<>>,
             writes |-> {}]
       ELSE LET margin == (size - (point_size * data_length)) \div 2
                length == size * size
                writes == ImageWrites(qr, size, point_size, margin)
            IN IF \E p \in writes : p >= length
               THEN [ok |-> FALSE, panicked |-> TRUE, error |-> "", img_raw |-> <<>>,
                     writes |-> writes]
               ELSE [ok |-> TRUE, panicked |-> FALSE, error |-> "",
                     img_raw |-> [p \in 1..length |-> IF (p - 1) \in writes THEN 0 ELSE 255],
                     writes |-> writes]

(***************************************************************************)
(* to_png_inner (lib.rs 783-790) and the functions that write to a file    *)
(* (lib.rs 691-711, 825-845).                                              *)
(***************************************************************************)
\* PNGEncoder::encode: the signature, the header with the dimensions and
\* the colour type, the image data, the end chunk; one write each
PngChunks(img_raw, size) ==
    <<Lit("PNG signature"),
      [kind |-> "IHDR", lit |-> "Gray(8)", bytes |-> to_string(size) \o <<120>> \o to_string(size)],
      [kind |-> "IDAT", lit |-> "", bytes |-> img_raw],
      [kind |-> "IEND", lit |-> "", bytes |-> <<>>]>>

\* lib.rs 783-790; fail_at as for to_svg_inner.  [ok, error, written]
to_png_inner(qr, size, fail_at) ==
    LET img == to_image_inner(qr, size)
    IN IF ~img.ok
       THEN [ok |-> FALSE, error |-> img.error, written |-> <<>>]
       ELSE LET chunks == PngChunks(img.img_raw, size)
            IN IF fail_at > 0 /\ fail_at <= Len(chunks)
               THEN [ok |-> FALSE, error |-> WriterError,
                     written |-> SubSeq(chunks, 1, fail_at - 1)]
               ELSE [ok |-> TRUE, error |-> "", written |-> chunks]

\* lib.rs 511, 519, 531
DataIsTooLong == "the data is too long"

\* the error of File::create
CreateError == "File::create's error"

\* no file at a path
NoFile == [exists |-> FALSE, content |-> <<>>]

\* File::create (lib.rs 695, 829) when it succeeds: the file is there and
\* empty, whether or not one was there before
File_create(fs, path) == [fs EXCEPT ![path] = [exists |-> TRUE, content |-> <<>>]]

\* the writes of the rendering, received by the file in order
File_write(fs, path, written) == [fs EXCEPT ![path].content = written]

\* the clean-up without the removal
remove_file_not_called(fs, path, outcome) == fs

\* fs::remove_file (lib.rs 698, 832): the file is gone when the call
\* succeeds and untouched when it fails
remove_file(fs, path, outcome) ==
    IF outcome = "ok" THEN [fs EXCEPT ![path] = NoFile] ELSE fs

(***************************************************************************)
(* The inputs the calls are made with.                                     *)
(***************************************************************************)
\* every ASCII character, for the classifier
Chars == 0..127

\* 'a' (Byte only), 'A' and '.' (alphanumeric), '1' (numeric), U+00E9 (Byte
\* only, two bytes)
Alphabet == {97, 65, 46, 49, 233}

\* '1', 'A', U+00E9
SplitAlphabet == {49, 65, 233}

Texts == SeqsOf(Alphabet, 1, MaxLen)

SplitTexts == SeqsOf(SplitAlphabet, 1, MaxSplitLen)

\* one version or more of each class: 1-9, 10-26, 27-40
ClassVersions == {1, 10, 27, 40}

\* "1234567ABCDEFG"
DigitsLetters == <<49, 50, 51, 52, 53, 54, 55, 65, 66, 67, 68, 69, 70, 71>>

\* LongLen four-byte characters (U+1F600): more bytes than version 40 holds
\* at ECC High
LongText == [i \in 1..LongLen |-> 128512]

\* the <<text, ecc>> pairs make_segments_optimally is called with
OptimizerInputs ==
    ((SeqsOf(Alphabet, 0, 2) \cup {DigitsLetters, <<97, 49, 49>>, <<49, 49, 97>>})
        \X QrCodeEcc)
    \cup {<<LongText, "High">>}

\* "https://magiclen.org/path/to/12345" (lib.rs 103, 864)
MagiclenUrl ==
    <<104, 116, 116, 112, 115, 58, 47, 47, 109, 97, 103, 105, 99, 108, 101, 110, 46,
      111, 114, 103, 47, 112, 97, 116, 104, 47, 116, 111, 47, 49, 50, 51, 52, 53>>

\* "Hello world!" (lib.rs 892)
HelloWorld == <<72, 101, 108, 108, 111, 32, 119, 111, 114, 108, 100, 33>>

\* URLs by their parts: scheme "h"; user-info none or "u@"; host "m" or
\* "m.o"; path none or "/p"; query none, "?q" or "?" U+00DF
UrlParts ==
    [scheme : {<<104>>},
     userinfo : {<<>>, <<117, 64>>},
     host : {<<109>>, <<109, 46, 111>>},
     path : {<<>>, <<47, 112>>},
     query : {<<>>, <<63, 113>>, <<63, 223>>}]

UrlOf(u) == u.scheme \o ProtocolSep \o u.userinfo \o u.host \o u.path \o u.query

\* strings without "://": "a", "a/b", "m:/p", "b:p"
PlainStrings == {<<97>>, <<97, 47, 98>>, <<109, 58, 47, 112>>, <<98, 58, 112>>}

\* the data to_matrix is called with: the two texts of the tests, "1", a byte
\* string that is not UTF-8, and 3000 bytes, more than any version holds
MatrixData ==
    {into_bytes(HelloWorld), into_bytes(MagiclenUrl), <<49>>, <<255, 49>>,
     [i \in 1..3000 |-> 255]}

\* the segment lists to_matrix_by_segments is called with: those of the crate
\* documentation (lib.rs 77-86, 103-106) and the empty list
MatrixSegments ==
    {<<make_numeric(SubSeq(DigitsLetters, 1, 7)).seg,
       make_alphanumeric(SubSeq(DigitsLetters, 8, 14)).seg>>,
     optimize_url_segments(MagiclenUrl),
     <<>>}

\* the URLs the test text_optimize_url is run with: its own, and "h://m/p"
TestUrls == {MagiclenUrl, <<104, 58, 47, 47, 109, 47, 112>>}

\* the symbols to_svg_inner and to_image_inner are called with: versions 1
\* and 2 (21 and 25 modules per side)
QrCodes == {[size |-> 4 * v + 17, pattern |-> p] : v \in {1, 2}, p \in Patterns}

\* the requested sizes: none, below and at one pixel per module with margin
\* for both symbols, and up to MaxImageSize (two pixels per module from 46)
ImageSizes == {0, 1} \cup (20..28) \cup (44..MaxImageSize)

\* no description, the empty one, and "a<b"
Descriptions == {NoDescription, SomeDescription(<<>>), SomeDescription(<<97, 60, 98>>)}

\* the writer: never failing, failing at its first operation, at its eighth
FailAts == {0, 1, 8}

\* the paths: one with no file, one with a file from before
Paths == {"new", "old"}

InitialFiles ==
    [p \in Paths |-> IF p = "old" THEN [exists |-> TRUE, content |-> <<Lit("old")>>]
                     ELSE NoFile]

\* the data the file functions are called with: "1" and 3000 bytes, more
\* than any version holds
FileData == {<<49>>, [i \in 1..3000 |-> 255]}

\* the sizes they are called with: one short of a symbol of 21 modules with
\* its margin, and just enough
FileSizes == {22, 23}

\* how an operation of the file system ends
Outcomes == {"ok", "err"}

(***************************************************************************)
(* The state machine: a call of one of the functions from the idle state.  *)
(***************************************************************************)
NoLocals == [status |-> "none"]

Init ==
    /\ stdlib \in StdLibs
    /\ pc = "idle"
    /\ call = [op |-> "none"]
    /\ ret = [panicked |-> FALSE]
    /\ version = 0
    /\ segs = <<>>
    /\ locals = NoLocals
    /\ files = InitialFiles

Call_is_alphanumeric ==
    /\ pc = "idle"
    /\ \E c \in Chars :
        /\ call' = [op |-> "is_alphanumeric", c |-> c]
        /\ ret' = [panicked |-> FALSE, value |-> is_alphanumeric(c)]
    /\ pc' = "returned"
    /\ UNCHANGED <<files, stdlib, version, segs, locals>>

Call_compute_character_modes ==
    /\ pc = "idle"
    /\ \E code_points \in Texts, ver \in ClassVersions :
        /\ call' = [op |-> "compute_character_modes", code_points |-> code_points,
                    version |-> ver]
        /\ ret' = [panicked |-> compute_character_modes(code_points, ver).panicked,
                    modes |-> compute_character_modes(code_points, ver).modes,
                    locals |-> compute_character_modes_locals(code_points, ver)]
    /\ pc' = "returned"
    /\ UNCHANGED <<files, stdlib, version, segs, locals>>

Call_split_into_segments ==
    /\ pc = "idle"
    /\ \E code_points \in SplitTexts :
       \E char_modes \in [1..Len(code_points) -> Mode] :
        /\ call' = [op |-> "split_into_segments", code_points |-> code_points,
                    char_modes |-> char_modes]
        /\ ret' = split_into_segments(code_points, char_modes)
    /\ pc' = "returned"
    /\ UNCHANGED <<files, stdlib, version, segs, locals>>

Call_make_segments_optimally_version ==
    /\ pc = "idle"
    /\ \E code_points \in Texts, ver \in ClassVersions :
        /\ call' = [op |-> "make_segments_optimally_version",
                    code_points |-> code_points, version |-> ver]
        /\ ret' = make_segments_optimally_version(code_points, ver)
    /\ pc' = "returned"
    /\ UNCHANGED <<files, stdlib, version, segs, locals>>

Call_optimize_url_segments ==
    /\ pc = "idle"
    /\ \/ \E u \in UrlParts :
            call' = [op |-> "optimize_url_segments", url |-> UrlOf(u), is_url |-> TRUE,
                     parts |-> u]
       \/ \E t \in PlainStrings :
            call' = [op |-> "optimize_url_segments", url |-> t, is_url |-> FALSE,
                     parts |-> [scheme |-> <<>>, userinfo |-> <<>>, host |-> <<>>,
                                path |-> t, query |-> <<>>]]
    /\ ret' = [panicked |-> FALSE, segs |-> optimize_url_segments(call'.url)]
    /\ pc' = "returned"
    /\ UNCHANGED <<files, stdlib, version, segs, locals>>

\* lib.rs 556-559
Call_to_matrix ==
    /\ pc = "idle"
    /\ \E data \in MatrixData, ecc \in QrCodeEcc, pattern \in Patterns :
        /\ call' = [op |-> "to_matrix", data |-> data, ecc |-> ecc]
        /\ ret' = to_matrix(data, ecc, pattern)
    /\ pc' = "returned"
    /\ UNCHANGED <<files, stdlib, version, segs, locals>>

\* lib.rs 561-564
Call_to_matrix_by_segments ==
    /\ pc = "idle"
    /\ \E segments \in MatrixSegments, ecc \in QrCodeEcc, pattern \in Patterns :
        /\ call' = [op |-> "to_matrix_by_segments", segments |-> segments, ecc |-> ecc]
        /\ ret' = to_matrix_by_segments(segments, ecc, pattern)
    /\ pc' = "returned"
    /\ UNCHANGED <<files, stdlib, version, segs, locals>>

\* lib.rs 862-870 (and the doc test, lib.rs 103-108): matrix_1 and matrix_2
Call_text_optimize_url ==
    /\ pc = "idle"
    /\ \E url \in TestUrls, pattern \in Patterns :
        /\ call' = [op |-> "text_optimize_url", url |-> url]
        /\ ret' = [matrix_1 |-> to_matrix(into_bytes(url), "Low", pattern),
                   matrix_2 |-> to_matrix_by_segments(optimize_url_segments(url), "Low",
                                                      pattern)]
    /\ pc' = "returned"
    /\ UNCHANGED <<files, stdlib, version, segs, locals>>

(***************************************************************************)
(* make_segments_optimally (lib.rs 409-423), one loop iteration per step,  *)
(* the loops of the functions it calls included.                           *)
(***************************************************************************)
Running == [status |-> "running"]

\* lib.rs 410-411
MSO_Call ==
    /\ pc = "idle"
    /\ \E in \in OptimizerInputs :
        call' = [op |-> "make_segments_optimally", code_points |-> in[1], ecc |-> in[2]]
    /\ ret' = Running
    /\ version' = 1
    /\ segs' = <<>>
    /\ locals' = NoLocals
    /\ pc' = "version_loop"
    /\ UNCHANGED <<files, stdlib>>

\* lib.rs 413-415: the head of `for version in 1..=40`; at versions 1, 10 and
\* 27 make_segments_optimally_version is entered (compute_character_modes
\* first, lib.rs 284-302)
MSO_VersionLoop ==
    /\ pc = "version_loop"
    /\ version <= 40
    /\ IF version = 1 \/ version = 10 \/ version = 27
       THEN /\ pc' = "char_loop"
            /\ locals' = CharEnter(head_costs(version))
       ELSE /\ pc' = "capacity"
            /\ locals' = NoLocals
    /\ UNCHANGED <<files, stdlib, call, ret, version, segs>>

\* lib.rs 304-331
MSO_CharStep ==
    /\ pc = "char_loop"
    /\ locals.i < Len(call.code_points)
    /\ locals' = CharStep(call.code_points, locals, head_costs(version))
    /\ UNCHANGED <<files, stdlib, pc, call, ret, version, segs>>

\* lib.rs 333-346
MSO_CharLoopEnd ==
    /\ pc = "char_loop"
    /\ locals.i >= Len(call.code_points)
    /\ locals' = TraceEnter(locals)
    /\ pc' = "trace_back"
    /\ UNCHANGED <<files, stdlib, call, ret, version, segs>>

\* lib.rs 348-356
MSO_TraceStep ==
    /\ pc = "trace_back"
    /\ locals.i >= 0
    /\ LET l == TraceStep(locals)
       IN /\ locals' = l
          /\ IF l.status = "panicked"
             THEN pc' = "panicked" /\ ret' = [panicked |-> TRUE, segs |-> <<>>]
             ELSE UNCHANGED <<pc, ret>>
    /\ UNCHANGED <<files, stdlib, call, version, segs>>

\* lib.rs 358, 404-405, 362-368: compute_character_modes returns result and
\* split_into_segments is entered with it
MSO_TraceEnd ==
    /\ pc = "trace_back"
    /\ locals.i < 0
    /\ LET l == SplitEnter(locals.result)
       IN /\ locals' = l
          /\ IF l.status = "panicked"
             THEN pc' = "panicked" /\ ret' = [panicked |-> TRUE, segs |-> <<>>]
             ELSE pc' = "split_loop" /\ UNCHANGED ret
    /\ UNCHANGED <<files, stdlib, call, version, segs>>

\* lib.rs 369-397, and 415: the returned segments are assigned to segs
MSO_SplitIter ==
    /\ pc = "split_loop"
    /\ LET l == SplitIter(call.code_points, locals)
       IN /\ locals' = l
          /\ CASE l.status = "panicked" ->
                    /\ pc' = "panicked"
                    /\ ret' = [panicked |-> TRUE, segs |-> l.result]
                    /\ UNCHANGED segs
               [] l.status = "returned" ->
                    /\ pc' = "capacity"
                    /\ segs' = l.result
                    /\ UNCHANGED ret
               [] OTHER -> UNCHANGED <<pc, ret, segs>>
    /\ UNCHANGED <<files, stdlib, call, version>>

\* lib.rs 418-420: data_capacity_bits is computed and the iteration ends
MSO_Capacity ==
    /\ pc = "capacity"
    /\ locals' = [status |-> "none",
                  data_capacity_bits |-> get_num_data_codewords(version, call.ecc) * 8]
    /\ version' = version + 1
    /\ pc' = "version_loop"
    /\ UNCHANGED <<files, stdlib, call, ret, segs>>

\* lib.rs 422: after the loop, `vec![]`
MSO_Return ==
    /\ pc = "version_loop"
    /\ version > 40
    /\ ret' = [panicked |-> FALSE, segs |-> <<>>]
    /\ pc' = "done"
    /\ UNCHANGED <<files, stdlib, call, version, segs, locals>>

(***************************************************************************)
(* Calls of the drawing functions.                                         *)
(***************************************************************************)
\* lib.rs 566-656
Call_to_svg_inner ==
    /\ pc = "idle"
    /\ \E qr \in QrCodes, size \in ImageSizes, description \in Descriptions,
          fail_at \in FailAts :
        /\ call' = [op |-> "to_svg_inner", qr |-> qr, size |-> size,
                    description |-> description, fail_at |-> fail_at]
        /\ ret' = [panicked |-> FALSE] @@ to_svg_inner(qr, size, description, fail_at)
    /\ pc' = "returned"
    /\ UNCHANGED <<files, stdlib, version, segs, locals>>

\* lib.rs 713-752
Call_to_image_inner ==
    /\ pc = "idle"
    /\ \E qr \in QrCodes, size \in ImageSizes :
        /\ call' = [op |-> "to_image_inner", qr |-> qr, size |-> size]
        /\ ret' = to_image_inner(qr, size)
    /\ pc' = "returned"
    /\ UNCHANGED <<files, stdlib, version, segs, locals>>

(***************************************************************************)
(* to_svg_to_file and to_png_to_file, one operation of the file system per *)
(* step.                                                                   *)
(***************************************************************************)
\* lib.rs 704-705, 838-839: generate_qrcode(data, ecc)?
ToFile_Call ==
    /\ pc = "idle"
    /\ \E op \in {"to_svg_to_file", "to_png_to_file"}, data \in FileData,
          ecc \in {"Low", "High"}, size \in FileSizes, path \in Paths,
          fail_at \in FailAts, pattern \in Patterns :
        LET g == generate_qrcode(data, ecc, pattern)
        IN /\ call' = [op |-> op, data |-> data, ecc |-> ecc, size |-> size,
                       description |-> NoDescription, path |-> path, fail_at |-> fail_at]
           /\ IF g.ok
              THEN /\ pc' = "file_create"
                   /\ ret' = Running
                   /\ locals' = [status |-> "encoded", qr |-> g.qr, error |-> ""]
              ELSE /\ pc' = "returned"
                   /\ ret' = [panicked |-> FALSE, ok |-> FALSE, error |-> DataIsTooLong]
                   /\ locals' = [status |-> "not encoded", qr |-> g.qr, error |-> ""]
    /\ UNCHANGED <<files, stdlib, version, segs>>

\* lib.rs 695, 829: File::create(path)?
ToFile_Create ==
    /\ pc = "file_create"
    /\ \E outcome \in Outcomes :
        IF outcome = "ok"
        THEN /\ files' = File_create(files, call.path)
             /\ locals' = [locals EXCEPT !.status = "created"]
             /\ pc' = "file_render"
             /\ UNCHANGED ret
        ELSE /\ ret' = [panicked |-> FALSE, ok |-> FALSE, error |-> CreateError]
             /\ locals' = [locals EXCEPT !.status = "not created"]
             /\ pc' = "returned"
             /\ UNCHANGED files
    /\ UNCHANGED <<stdlib, call, version, segs>>

\* lib.rs 697, 831: to_svg_inner / to_png_inner with the file as the writer;
\* Ok is returned as it is, an error goes to the closure of map_err
ToFile_Render ==
    /\ pc = "file_render"
    /\ LET r == IF call.op = "to_svg_to_file"
                THEN to_svg_inner(locals.qr, call.size, call.description, call.fail_at)
                ELSE to_png_inner(locals.qr, call.size, call.fail_at)
       IN /\ files' = File_write(files, call.path, r.written)
          /\ IF r.ok
             THEN /\ ret' = [panicked |-> FALSE, ok |-> TRUE, error |-> ""]
                  /\ locals' = [locals EXCEPT !.status = "rendered"]
                  /\ pc' = "returned"
             ELSE /\ locals' = [locals EXCEPT !.status = "render failed", !.error = r.error]
                  /\ pc' = "file_remove"
                  /\ UNCHANGED ret
    /\ UNCHANGED <<stdlib, call, version, segs>>

\* lib.rs 698-699, 832-833: `if let Err(_) = fs::remove_file(path) {}`, then
\* the rendering's error is returned
ToFile_Remove ==
    /\ pc = "file_remove"
    /\ \E outcome \in Outcomes :
        /\ files' = remove_file(files, call.path, outcome)
        /\ locals' = [locals EXCEPT !.status = IF outcome = "ok" THEN "removed"
                                                ELSE "not removed"]
    /\ ret' = [panicked |-> FALSE, ok |-> FALSE, error |-> locals.error]
    /\ pc' = "returned"
    /\ UNCHANGED <<stdlib, call, version, segs>>

(***************************************************************************)
(* Calls of the cost and capacity functions on their own.                  *)
(***************************************************************************)
\* lib.rs 286-290: the head costs compute_character_modes starts from
Call_head_costs ==
    /\ pc = "idle"
    /\ \E ver \in Versions :
        /\ call' = [op |-> "head_costs", version |-> ver]
        /\ ret' = [panicked |-> FALSE, head_costs |-> head_costs(ver)]
    /\ pc' = "returned"
    /\ UNCHANGED <<files, stdlib, version, segs, locals>>

\* lib.rs 263-274
Call_get_num_raw_data_modules ==
    /\ pc = "idle"
    /\ \E ver \in Versions :
        /\ call' = [op |-> "get_num_raw_data_modules", ver |-> ver]
        /\ ret' = [panicked |-> FALSE, value |-> get_num_raw_data_modules(ver)]
    /\ pc' = "returned"
    /\ UNCHANGED <<files, stdlib, version, segs, locals>>

\* lib.rs 277-280
Call_get_num_data_codewords ==
    /\ pc = "idle"
    /\ \E ver \in Versions, ecl \in QrCodeEcc :
        /\ call' = [op |-> "get_num_data_codewords", ver |-> ver, ecl |-> ecl]
        /\ ret' = [panicked |-> FALSE, value |-> get_num_data_codewords(ver, ecl)]
    /\ pc' = "returned"
    /\ UNCHANGED <<files, stdlib, version, segs, locals>>

Next ==
    \/ Call_is_alphanumeric
    \/ Call_head_costs
    \/ Call_get_num_raw_data_modules
    \/ Call_get_num_data_codewords
    \/ Call_compute_character_modes
    \/ Call_split_into_segments
    \/ Call_make_segments_optimally_version
    \/ Call_optimize_url_segments
    \/ Call_to_matrix
    \/ Call_to_matrix_by_segments
    \/ Call_text_optimize_url
    \/ Call_to_svg_inner
    \/ Call_to_image_inner
    \/ ToFile_Call
    \/ ToFile_Create
    \/ ToFile_Render
    \/ ToFile_Remove
    \/ MSO_Call
    \/ MSO_VersionLoop
    \/ MSO_CharStep
    \/ MSO_CharLoopEnd
    \/ MSO_TraceStep
    \/ MSO_TraceEnd
    \/ MSO_SplitIter
    \/ MSO_Capacity
    \/ MSO_Return

Spec == Init /\ [][Next]_vars

(***************************************************************************)
(* Notions the claims are stated with.                                     *)
(***************************************************************************)
\* character c is representable in mode m
RepresentableIn(c, m) ==
    \/ m = "Byte"
    \/ m = "Alphanumeric" /\ c \in ALPHANUMERIC_CHARSET
    \/ m = "Numeric" /\ 48 <= c /\ c <= 57

\* a mode-per-character array that gives each character of text a mode it
\* is representable in
Representable(text, modes) ==
    /\ Len(modes) = Len(text)
    /\ \A i \in 1..Len(text) : RepresentableIn(text[i], modes[i])

\* the cost model: a run's header, 6 * (4 + the count-field bits of the run's
\* own mode for the version's class)
CostHeader(m, ver) == 6 * (4 + SegmentCountBits(m, ver))

\* a character's cost in mode m
CostChar(c, m) ==
    IF m = "Byte" THEN 48 * len_utf8(c) ELSE IF m = "Alphanumeric" THEN 33 ELSE 20

\* the total cost of the first n characters of text under the assignment
\* modes: rounded up to a multiple of 6 at each mode switch
RECURSIVE AssignmentCost(_, _, _, _)
AssignmentCost(text, modes, ver, n) ==
    IF n = 0 THEN 0
    ELSE IF n = 1 THEN CostHeader(modes[1], ver) + CostChar(text[1], modes[1])
    ELSE LET before == AssignmentCost(text, modes, ver, n - 1)
         IN IF modes[n] = modes[n - 1] THEN before + CostChar(text[n], modes[n])
            ELSE ((before + 5) \div 6) * 6 + CostHeader(modes[n], ver)
                   + CostChar(text[n], modes[n])

\* a lower bound, in cost units (bits * 6), of what any segmentation of text
\* takes: every character in its cheapest mode and one header
CostLowerBound(text) ==
    SumSeq([i \in 1..Len(text) |->
              IF 48 <= text[i] /\ text[i] <= 57 THEN 20
              ELSE IF text[i] \in ALPHANUMERIC_CHARSET THEN 33
              ELSE 48 * len_utf8(text[i])])

\* text fits no version at ecc, however it is segmented
FitsNoVersion(text, ecc) == CostLowerBound(text) > 6 * 8 * get_num_data_codewords(40, ecc)

\* the version at which the segment set in use at version v was computed
BoundaryOf(v) == IF v >= 27 THEN 27 ELSE IF v >= 10 THEN 10 ELSE 1

\* the failure a caller is to be told of
DataTooLong == [panicked |-> FALSE, error |-> "DataTooLong"]

(***************************************************************************)
(* The claims.                                                             *)
(***************************************************************************)
\* C1: for every non-empty code-point sequence and every mode array of the
\* same length (one each character is representable in), the segments emitted
\* by split_into_segments, concatenated in order, carry exactly the input
\* sequence.
C1_SegmentsCarryInput ==
    (/\ call.op = "split_into_segments"
     /\ Len(call.code_points) > 0
     /\ Representable(call.code_points, call.char_modes))
        => /\ ~ret.panicked
           /\ SegmentsText(ret.segs) = call.code_points

\* C2: in the segments produced by make_segments_optimally_version, every
\* character handed to a Numeric segment is an ASCII digit and every character
\* handed to an Alphanumeric segment is in the 45-symbol charset.
C2_SegmentCharsFitMode ==
    (call.op = "make_segments_optimally_version" /\ Len(call.code_points) > 0)
        => \A i \in 1..Len(ret.segs) :
             \/ ret.segs[i].mode = "Byte"
             \/ \A k \in 1..Len(ret.segs[i].data) :
                  RepresentableIn(ret.segs[i].data[k], ret.segs[i].mode)

\* C3: the mode assignment returned by compute_character_modes has the
\* minimum total cost, under the cost model, among all assignments that give
\* each character a mode it is representable in.
C3_AssignmentIsCheapest ==
    (call.op = "compute_character_modes" /\ Len(call.code_points) > 0)
        => /\ ~ret.panicked
           /\ Representable(call.code_points, ret.modes)
           /\ \A a \in [1..Len(call.code_points) -> Mode] :
                Representable(call.code_points, a)
                    => AssignmentCost(call.code_points, ret.modes, call.version,
                                      Len(call.code_points))
                         <= AssignmentCost(call.code_points, a, call.version,
                                           Len(call.code_points))

\* C4: make_segments_optimally returns the segment set of the first version v
\* (the set computed at version 1, 10 or 27, whichever v's class starts with)
\* for which get_num_data_codewords(v, ecc) * 8 is at least the encoded bit
\* length of that segment set.
C4_ReturnsFirstFittingSet ==
    (pc = "done" /\ Len(call.code_points) <= Len(DigitsLetters))
        => \E v \in Versions :
             LET set(u) == make_segments_optimally_version(call.code_points,
                                                           BoundaryOf(u)).segs
             IN /\ SegmentsFit(set(v), v, call.ecc)
                /\ \A u \in 1..(v - 1) : ~SegmentsFit(set(u), u, call.ecc)
                /\ ret.segs = set(v)

\* C5: when a text fits no version 1..40 at the given ECC level, the
\* optimizer reports a data-too-long failure to its caller; it does not panic
\* and does not return a segment list as if it had succeeded.
C5_TooLongIsReported ==
    (pc \in {"done", "panicked"} /\ FitsNoVersion(call.code_points, call.ecc))
        => ret = DataTooLong

\* C6: is_alphanumeric(c) is true if and only if c is one of the 45 symbols
\* space, $, %, *, +, -, ., /, :, 0-9, A-Z.
C6_IsAlphanumericIsMembership ==
    call.op = "is_alphanumeric" => (ret.value <=> call.c \in ALPHANUMERIC_CHARSET)

C8_OnlyProtocolAndHostUppercased ==
    call.op = "optimize_url_segments"
        => SegmentsText(ret.segs) =
             IF call.is_url
             THEN to_uppercase(call.parts.scheme) \o ProtocolSep \o call.parts.userinfo
                    \o to_uppercase(call.parts.host) \o call.parts.path \o call.parts.query
             ELSE call.url

\* C9: for the text "1234567ABCDEFG" at ECC Low, the optimizer yields at least
\* two segments, a Numeric one covering exactly the seven digits and an
\* Alphanumeric one covering exactly the seven letters, and the resulting
\* symbol has strictly fewer modules per side than the symbol encoding the
\* same 14 characters as a single Byte segment.
C9_DigitsLettersSegments ==
    (pc = "done" /\ call.code_points = DigitsLetters /\ call.ecc = "Low")
        => /\ Len(ret.segs) >= 2
           /\ \E i \in 1..Len(ret.segs) :
                ret.segs[i] = [mode |-> "Numeric", data |-> SubSeq(DigitsLetters, 1, 7)]
           /\ \E i \in 1..Len(ret.segs) :
                ret.segs[i] = [mode |-> "Alphanumeric", data |-> SubSeq(DigitsLetters, 8, 14)]
           /\ encode_segments(ret.segs, "Low").size
                < encode_segments(<<make_bytes(into_bytes(DigitsLetters)).seg>>, "Low").size

\* C10: whenever to_matrix or to_matrix_by_segments succeeds, the result has
\* exactly size rows of exactly size entries, size being the symbol's side
\* length, and the entry at row y, column x is the symbol's module at (x, y);
\* for "Hello world!" at ECC Low it is 21 by 21.
C10_MatrixIsTheSymbol ==
    (call.op \in {"to_matrix", "to_matrix_by_segments"} /\ ret.ok)
        => /\ Len(ret.matrix) = ret.qr.size
           /\ \A y \in 0..(ret.qr.size - 1) :
                /\ Len(ret.matrix[y + 1]) = ret.qr.size
                /\ \A x \in 0..(ret.qr.size - 1) :
                     ret.matrix[y + 1][x + 1] = get_module(ret.qr, x, y)
           /\ (call.op = "to_matrix" /\ call.data = into_bytes(HelloWorld)
                 /\ call.ecc = "Low") => Len(ret.matrix) = 21

C10_Witness ==
    /\ call.op = "to_matrix"
    /\ call.data = into_bytes(HelloWorld)
    /\ call.ecc = "Low"
    /\ ret.ok
    /\ Len(ret.matrix) = 21
    /\ ret.matrix[1][2] # ret.matrix[2][1]

\* the character-count field widths the cost model names, by mode, for
\* versions 1-9, 10-26, 27-40
CountFieldWidth ==
    [Numeric |-> <<10, 12, 14>>, Alphanumeric |-> <<9, 11, 13>>, Byte |-> <<8, 16, 16>>]

VersionClass(v) == IF v <= 9 THEN 1 ELSE IF v <= 26 THEN 2 ELSE 3

\* C11: for every mode and every version in 1..40, the header cost that
\* compute_character_modes uses for the mode is 6 * (4 + the mode's own
\* character-count field width for the version's class); the three modes do
\* not share one header cost.
C11_HeadCostIsOwnWidth ==
    call.op = "head_costs"
        => /\ \A i \in 1..NUM_MODES :
                ret.head_costs[i]
                    = 6 * (4 + CountFieldWidth[mode_types[i]][VersionClass(call.version)])
           /\ \E i, j \in 1..NUM_MODES : ret.head_costs[i] # ret.head_costs[j]

\* (16v + 128)v + 64, minus (25a - 10)a - 55 with a = v / d + 2 when v >= 2,
\* minus a further 36 when v >= 7
RawModulesFormula(v, d) ==
    LET a == v \div d + 2
    IN (16 * v + 128) * v + 64
         - (IF v >= 2 THEN (25 * a - 10) * a - 55 ELSE 0)
         - (IF v >= 7 THEN 36 ELSE 0)

\* C12 (as stated): for every version v in 1..40, get_num_raw_data_modules(v)
\* equals (16v + 128)v + 64, minus (25a - 10)a - 55 with a = v/6 + 2 when
\* v >= 2, minus a further 36 when v >= 7.
C12_RawModulesBySix ==
    call.op = "get_num_raw_data_modules" => ret.value = RawModulesFormula(call.ver, 6)

\* C12 (amended): for every version v in 1..40, get_num_raw_data_modules(v)
\* equals (16v + 128)v + 64, minus (25a - 10)a - 55 with a = v/7 + 2 when
\* v >= 2, minus a further 36 when v >= 7.
C12_RawModulesBySeven ==
    call.op = "get_num_raw_data_modules" => ret.value = RawModulesFormula(call.ver, 7)

\* version 6, where v/6 and v/7 first differ: 1383 modules, 172 codewords
C12_Witness ==
    /\ call.op = "get_num_raw_data_modules"
    /\ call.ver = 6
    /\ ret.value = 1383

\* the modes the path through the back-pointers gives characters 1..i, when
\* the character after them is in mode next: the back-pointer of character i
\* under next is the mode of character i, and so on down to the first
RECURSIVE TracedPath(_, _, _)
TracedPath(char_modes, i, next) ==
    IF i = 0 THEN <<>>
    ELSE IF next = None THEN [k \in 1..i |-> None]
    ELSE LET m == char_modes[i][ModeIndex(next)]
         IN Append(TracedPath(char_modes, i - 1, m), m)

\* C13: for every text of n >= 1 characters, compute_character_modes returns
\* an array of length n whose element at index i is the mode that the path
\* traced back through the back-pointers assigns to character i of the input.
C13_ResultIsInTextOrder ==
    (call.op = "compute_character_modes" /\ Len(call.code_points) > 0)
        => /\ ~ret.panicked
           /\ Len(ret.modes) = Len(call.code_points)
           /\ ret.modes = TracedPath(ret.locals.char_modes, Len(call.code_points),
                                     ret.locals.cur_mode)

\* C14: for every ECC level, get_num_data_codewords(v, ecc) is strictly
\* increasing in v over versions 1..40, and make_segments_optimally visits
\* the versions in the order 1, 2, ..., 40, so in increasing capacity order.
C14_CapacityIncreases ==
    /\ (call.op = "get_num_data_codewords" /\ call.ver < 40)
          => ret.value < get_num_data_codewords(call.ver + 1, call.ecl)
    /\ (pc = "capacity" /\ version > 1)
          => get_num_data_codewords(version - 1, call.ecc)
               < get_num_data_codewords(version, call.ecc)

\* the two capacities the by-six formula would make equal: versions 5 and 6
\* at Quartile
C14_Witness ==
    /\ call.op = "get_num_data_codewords"
    /\ call.ver = 5
    /\ call.ecl = "Quartile"
    /\ ret.value = 62
    /\ get_num_data_codewords(6, "Quartile") = 76

\* C15: the 45-element table SORTED_ALPHANUMERIC_CHARSET is in strictly
\* ascending code-point order, and the binary search of is_alphanumeric
\* finds every element of the table.
C15_TableIsAscending ==
    call.op = "is_alphanumeric"
        => /\ Len(SORTED_ALPHANUMERIC_CHARSET) = 45
           /\ \A i \in 1..(Len(SORTED_ALPHANUMERIC_CHARSET) - 1) :
                SORTED_ALPHANUMERIC_CHARSET[i] < SORTED_ALPHANUMERIC_CHARSET[i + 1]
           /\ (\E i \in 1..Len(SORTED_ALPHANUMERIC_CHARSET) :
                 SORTED_ALPHANUMERIC_CHARSET[i] = call.c) => ret.value

RoundUp6(x) == ((x + 5) \div 6) * 6

\* the candidates for the entry of mode j of one character, in the order
\* Byte, Alphanumeric, Numeric: continuing in mode j (when the character is
\* representable in it) and switching to j from each other mode k that has an
\* entry; st holds the entries as they stand when j's turn comes
Candidates(j, st, heads) ==
    LET at(k) == IF st.modes[k] = None THEN <<>>
                 ELSE IF k = j THEN <<[cost |-> st.costs[j], mode |-> mode_types[j]]>>
                 ELSE <<[cost |-> RoundUp6(st.costs[k]) + heads[j], mode |-> mode_types[k]]>>
    IN at(1) \o at(2) \o at(3)

LeastCost(cands) ==
    CHOOSE x \in {cands[i].cost : i \in 1..Len(cands)} :
        \A i \in 1..Len(cands) : x <= cands[i].cost

\* the first of the candidates of least cost
FirstOfLeastCost(cands) ==
    cands[CHOOSE i \in 1..Len(cands) :
            /\ cands[i].cost = LeastCost(cands)
            /\ \A h \in 1..(i - 1) : cands[h].cost # LeastCost(cands)]

\* several candidates share the least cost
IsTie(cands) ==
    \E i, h \in 1..Len(cands) :
        i # h /\ cands[i].cost = LeastCost(cands) /\ cands[h].cost = LeastCost(cands)

\* the entries of one character when each mode in turn keeps the first of
\* its candidates of least cost
RECURSIVE KeepFirst(_, _, _)
KeepFirst(j, st, heads) ==
    IF j > NUM_MODES THEN st
    ELSE LET p == FirstOfLeastCost(Candidates(j, st, heads))
         IN KeepFirst(j + 1, [costs |-> [st.costs EXCEPT ![j] = p.cost],
                              modes |-> [st.modes EXCEPT ![j] = p.mode]], heads)

\* the entries character i of text starts from: the continue costs
EntriesBefore(text, ver, i) ==
    [costs |-> ContinueCosts(text[i], DpTables(SubSeq(text, 1, i - 1), ver).prev_costs),
     modes |-> ContinueModes(text[i])]

\* the candidates for the ending mode: the three final costs
EndingCandidates(prev_costs) ==
    [i \in 1..NUM_MODES |-> [cost |-> prev_costs[i], mode |-> mode_types[i]]]

\* C16: in compute_character_modes a candidate replaces an existing one only
\* when its cost is strictly lower: among candidates of equal cost the first
\* in the order Byte, Alphanumeric, Numeric is kept, in each per-character
\* transition and in the choice of the ending mode.
C16_FirstOfEqualCostIsKept ==
    call.op = "compute_character_modes"
        => /\ \A i \in 1..Len(call.code_points) :
                LET kept == KeepFirst(1, EntriesBefore(call.code_points, call.version, i),
                                      head_costs(call.version))
                    after == DpTables(SubSeq(call.code_points, 1, i), call.version)
                IN /\ after.prev_costs = kept.costs
                   /\ ret.locals.char_modes[i] = kept.modes
           /\ ret.locals.cur_mode
                = FirstOfLeastCost(EndingCandidates(ret.locals.prev_costs)).mode

\* "1A" at version 1: for the second character, continuing in Byte and
\* switching to Byte from Alphanumeric both cost 126, and Byte is kept
C16_Witness ==
    /\ call.op = "compute_character_modes"
    /\ call.code_points = <<49, 65>>
    /\ call.version = 1
    /\ IsTie(Candidates(1, EntriesBefore(call.code_points, 1, 2), head_costs(1)))
    /\ ret.locals.char_modes[2][1] = "Byte"
    /\ ret.locals.prev_costs[1] = 126

\* C17: for every finite text, the empty text included, and every ECC level,
\* make_segments_optimally returns normally: no step of the character loop,
\* of the trace-back or of the run-collapsing loop aborts.
C17_OptimizerReturnsNormally ==
    call.op = "make_segments_optimally" => pc # "panicked"

\* the three back-pointer entries of character c are set, each to a mode c
\* is representable in
BackPointersOf(c, entries) ==
    \A j \in 1..NUM_MODES :
        entries[j] # None /\ RepresentableIn(c, entries[j])

\* C18: after compute_character_modes has processed character i, each of the
\* three back-pointer entries char_modes[i] is set and holds a mode in which
\* character i is representable; hence the unwrap in the trace-back never
\* fails, and the mode the trace-back takes for a character is never Numeric
\* for a non-digit nor Alphanumeric for a character outside the charset.
C18_BackPointersAreRepresentable ==
    /\ call.op = "compute_character_modes"
        => /\ \A i \in 1..Len(call.code_points) :
                BackPointersOf(call.code_points[i], ret.locals.char_modes[i])
           /\ ~ret.panicked
           /\ Representable(call.code_points,
                            TracedPath(ret.locals.char_modes, Len(call.code_points),
                                       ret.locals.cur_mode))
    /\ (call.op = "make_segments_optimally" /\ pc = "char_loop")
        => \A i \in 1..locals.i :
                BackPointersOf(call.code_points[i], locals.char_modes[i])
    /\ (call.op = "make_segments_optimally" /\ pc = "trace_back")
        => /\ locals.status # "panicked"
           /\ \A k \in 1..Len(locals.result) :
                RepresentableIn(call.code_points[Len(call.code_points) + 1 - k],
                                locals.result[k])

\* "a1": for 'a' all three entries are Byte, set by switching; for '1' the
\* three entries are Byte, Alphanumeric and Numeric
C18_Witness ==
    /\ call.op = "compute_character_modes"
    /\ call.code_points = <<97, 49>>
    /\ ret.locals.char_modes[1] = <<"Byte", "Byte", "Byte">>
    /\ ret.locals.char_modes[2] = <<"Byte", "Alphanumeric", "Numeric">>

\* C19: to_image_inner and to_svg_inner fail with "the size is too small"
\* exactly when the requested size is less than the symbol's side length
\* plus 2, and then nothing has been written to the writer and no image data
\* is returned.
C19_TooSmallExactlyBelowSidePlusTwo ==
    /\ call.op = "to_svg_inner"
        => /\ (~ret.ok /\ ret.error = SizeTooSmall) <=> (call.size < call.qr.size + 2)
           /\ call.size < call.qr.size + 2 => ret.written = <<>>
    /\ call.op = "to_image_inner"
        => /\ (~ret.ok /\ ret.error = SizeTooSmall) <=> (call.size < call.qr.size + 2)
           /\ call.size < call.qr.size + 2 => (ret.img_raw = <<>> /\ ret.writes = {})

\* size 22 for 21 modules: one short, refused with nothing drawn
C19_Witness ==
    /\ call.op = "to_image_inner"
    /\ call.qr.size = 21
    /\ call.size = 22
    /\ ~ret.ok
    /\ ret.error = SizeTooSmall
    /\ ret.img_raw = <<>>

\* the pixel at column px, row py of an image of the given size
PixelAt(img_raw, size, px, py) == img_raw[py * size + px + 1]

\* C20: whenever to_image_inner succeeds for a symbol of side n and a
\* requested size, every index it writes is inside the size * size buffer,
\* and the pixel at column px, row py is black (0) if and only if px and py
\* are in margin .. margin + point_size * n - 1 and the module at
\* ((px - margin) / point_size, (py - margin) / point_size) is dark, with
\* point_size = size / (n + 2) and margin = (size - point_size * n) / 2;
\* every other pixel stays white (255), which leaves at least point_size
\* white pixels on each side.
C20_PixelsAreTheModules ==
    call.op = "to_image_inner"
        => LET n == call.qr.size
               size == call.size
               point_size == size \div (n + 2)
               margin == (size - point_size * n) \div 2
               inside(q) == margin <= q /\ q < margin + point_size * n
           IN /\ ~ret.panicked
              /\ ret.ok
                  => /\ Len(ret.img_raw) = size * size
                     /\ \A p \in ret.writes : 0 <= p /\ p < size * size
                     /\ \A px, py \in 0..(size - 1) :
                          /\ PixelAt(ret.img_raw, size, px, py) \in {0, 255}
                          /\ PixelAt(ret.img_raw, size, px, py) = 0
                                <=> /\ inside(px)
                                    /\ inside(py)
                                    /\ get_module(call.qr, (px - margin) \div point_size,
                                                  (py - margin) \div point_size)
                          /\ (\/ px < point_size \/ px >= size - point_size
                              \/ py < point_size \/ py >= size - point_size)
                                => PixelAt(ret.img_raw, size, px, py) = 255

\* 21 modules at size 47, dark where the column is even: two pixels per
\* module behind a margin of two; module (0, 0) is black, module (1, 0) white,
\* and the last three columns are white
C20_Witness ==
    /\ call.op = "to_image_inner"
    /\ call.qr = [size |-> 21, pattern |-> <<1, 0, 2>>]
    /\ call.size = 47
    /\ ret.ok
    /\ PixelAt(ret.img_raw, 47, 2, 2) = 0
    /\ PixelAt(ret.img_raw, 47, 3, 3) = 0
    /\ PixelAt(ret.img_raw, 47, 4, 2) = 255
    /\ PixelAt(ret.img_raw, 47, 1, 2) = 255
    /\ PixelAt(ret.img_raw, 47, 44, 2) = 255

\* a call of to_svg_to_file or to_png_to_file
IsToFile == call.op \in {"to_svg_to_file", "to_png_to_file"}

\* the call has returned an error after File::create succeeded
FailedAfterCreate ==
    IsToFile /\ pc = "returned" /\ ~ret.ok /\ locals.status \in {"removed", "not removed"}

\* C21: for to_svg_to_file and to_png_to_file, when encoding fails because
\* the data is too long the file at path is never created or modified; when
\* the file has been created and rendering then fails, the file is removed
\* before the error is returned: a failed call never leaves behind a file it
\* created.
C21_FailedCallLeavesNoFile ==
    /\ (IsToFile /\ pc = "returned" /\ ret.error = DataIsTooLong) => files = InitialFiles
    /\ (IsToFile /\ pc = "file_remove") => ret = Running
    /\ FailedAfterCreate => ~files[call.path].exists

\* C21 as the code has it: when encoding fails because the data is too
\* long the file at path is never created or modified; when the file has
\* been created and rendering then fails, fs::remove_file is called on the
\* path before the rendering's error is returned, and the outcome of the
\* removal is ignored: the file is gone when the removal succeeds and stays,
\* with what was written, when it fails.  Other paths are never touched.
C21_FailedCallAttemptsRemoval ==
    /\ (IsToFile /\ pc = "returned" /\ ret.error = DataIsTooLong) => files = InitialFiles
    /\ (IsToFile /\ pc = "file_remove") => (ret = Running /\ files[call.path].exists)
    /\ FailedAfterCreate
        => /\ ret.error = locals.error
           /\ ret.error \in {SizeTooSmall, WriterError}
           /\ locals.status = "removed" => ~files[call.path].exists
           /\ locals.status = "not removed" => files[call.path].exists
    /\ IsToFile => \A p \in Paths \ {call.path} : files[p] = InitialFiles[p]

\* to_svg_to_file at size 22 on a path without a file: created, refused as
\* too small, and removed again
C21_Witness ==
    /\ call.op = "to_svg_to_file"
    /\ call.path = "new"
    /\ call.size = 22
    /\ pc = "returned"
    /\ locals.status = "removed"
    /\ ret.error = SizeTooSmall
    /\ files = InitialFiles
====
